---- MODULE Spec2Model ----
(***************************************************************************)
(* Model of worker/handler.go: DefaultHandler.Handle / getData, the        *)
(* retryability predicate isRetryable and the retry loop retryableAPICall. *)
(*                                                                         *)
(* One invocation is followed statement by statement (pc is the position   *)
(* in the code).  An optional value (a *http.Response or an error that may *)
(* be nil) is a sequence of length 0 (nil) or 1.  An error value is a      *)
(* record [msg, cause]: its message as a sequence of text tokens, as       *)
(* fmt.Errorf builds it, and the error it wraps (what errors.Unwrap        *)
(* returns), nil when it wraps nothing.                                    *)
(***************************************************************************)
EXTENDS Integers, Sequences, FiniteSets

\* ---------------------------------------------------------------- constants

\* handler.go:11-13
defaultMaxRetries == 3
defaultRetryDelay == 100
serverErrorThreshold == 500
\* net/http's StatusOK, used at handler.go:47
StatusOK == 200

\* ------------------------------------------------------------------- bounds

\* Largest maxRetries a direct call of retryableAPICall passes.
MaxRetriesBound == 3
\* Number of invocations (Handle or retryableAPICall) followed in one run.
MaxInvocations == 2

\* maxRetries is an int: a negative value is a legal argument.
RetryCounts == (0 - 1)..MaxRetriesBound

\* Status codes a response may carry (1xx-5xx samples, with the boundaries
\* of the tests at 200/201 and 499/500).
Statuses == {200, 201, 301, 404, 499, 500, 503}

\* Transport-level failures the request function may report.
TransportErrors == {"network error", "connection refused"}

\* ------------------------------------------------------------ value helpers

Nil == <<>>

Some(v) == <<v>>

IsNil(o) == o = Nil

\* errors.New / fmt.Errorf without %w: a message and no wrapped error.
NewError(msg) == [msg |-> msg, cause |-> Nil]

\* The value of resp: status code and whether its body can be read to EOF.
Response(status, readable) == [StatusCode |-> status, readable |-> readable]

\* strconv-style decimal formatting of %d.
Digit(d) == <<"0", "1", "2", "3", "4", "5", "6", "7", "8", "9">>[d + 1]

RECURSIVE Digits(_)
Digits(n) == IF n < 10 THEN <<Digit(n)>> ELSE Append(Digits(n \div 10), Digit(n % 10))

FormatInt(n) == IF n < 0 THEN <<"-">> \o Digits(0 - n) ELSE Digits(n)

\* fmt.Errorf(prefix + "%w", e): with a nil operand %w prints %!w(<nil>) and
\* the result wraps nothing; otherwise e's message is appended and e wrapped.
ErrorfW(prefix, e) ==
    IF IsNil(e)
    THEN [msg |-> prefix \o <<"%!w(<nil>)">>, cause |-> Nil]
    ELSE [msg |-> prefix \o e[1].msg, cause |-> e]

\* strings.Contains on token sequences.
Contains(msg, sub) ==
    \E i \in 1..(Len(msg) - Len(sub) + 1) : SubSeq(msg, i, i + Len(sub) - 1) = sub

\* --------------------------------------------------------------------- state

VARIABLES
    pc,           \* position in the code of the running invocation
    caller,       \* "Handle" (getData called retryableAPICall) or "direct"
    invocations,  \* invocations started so far
    maxRetries,   \* retryableAPICall's parameter
    attempt,      \* the loop variable of retryableAPICall
    resp,         \* local resp of retryableAPICall (optional response)
    err,          \* local err of retryableAPICall (optional error)
    ret,          \* what retryableAPICall returned: [resp, err]
    result,       \* what Handle/getData returned (optional error)
    outcomes,     \* log: the outcome [resp, err] of every call of fn
    closes,       \* closes[i]: Body.Close() calls on the response of call i
    sleeps,       \* log: the durations (ms) passed to time.Sleep
    printed       \* whether "Received %d bytes" was printed

vars == <<pc, caller, invocations, maxRetries, attempt, resp, err, ret, result,
          outcomes, closes, sleeps, printed>>

NoReturn == [resp |-> Nil, err |-> Nil]

Init ==
    /\ pc = "idle"
    /\ caller = "none"
    /\ invocations = 0
    /\ maxRetries = 0
    /\ attempt = 0
    /\ resp = Nil
    /\ err = Nil
    /\ ret = NoReturn
    /\ result = Nil
    /\ outcomes = <<>>
    /\ closes = <<>>
    /\ sleeps = <<>>
    /\ printed = FALSE

\* ------------------------------------------------------------ isRetryable

\* isRetryable with every non-200 response retried (threshold mistaken).
isRetryableAbove200(r, e) ==
    IF ~IsNil(e) THEN TRUE
    ELSE IF ~IsNil(r) /\ r[1].StatusCode >= StatusOK THEN TRUE
    ELSE FALSE

\* isRetryable with a strict comparison against the threshold.
isRetryableStrict(r, e) ==
    IF ~IsNil(e) THEN TRUE
    ELSE IF ~IsNil(r) /\ r[1].StatusCode > serverErrorThreshold THEN TRUE
    ELSE FALSE

\* handler.go:61-69
isRetryable(r, e) ==
    IF ~IsNil(e) THEN TRUE
    ELSE IF ~IsNil(r) /\ r[1].StatusCode >= serverErrorThreshold THEN TRUE
    ELSE FALSE

\* ------------------------------------------------------- retryableAPICall

\* Enter with the attempt counter kept from the previous invocation (as if
\* it were a field of the handler rather than a local of the call).
EnterKeepAttempt(who, R) ==
    /\ pc \in {"idle", "done"}
    /\ invocations < MaxInvocations
    /\ invocations' = invocations + 1
    /\ caller' = who
    /\ maxRetries' = R
    /\ attempt' = attempt
    /\ resp' = Nil
    /\ err' = Nil
    /\ ret' = NoReturn
    /\ result' = Nil
    /\ outcomes' = <<>>
    /\ closes' = <<>>
    /\ sleeps' = <<>>
    /\ printed' = FALSE
    /\ pc' = "loop"

\* Entry of retryableAPICall (handler.go:72-76): fresh locals, attempt := 0.
Enter(who, R) ==
    /\ pc \in {"idle", "done"}
    /\ invocations < MaxInvocations
    /\ invocations' = invocations + 1
    /\ caller' = who
    /\ maxRetries' = R
    /\ attempt' = 0
    /\ resp' = Nil
    /\ err' = Nil
    /\ ret' = NoReturn
    /\ result' = Nil
    /\ outcomes' = <<>>
    /\ closes' = <<>>
    /\ sleeps' = <<>>
    /\ printed' = FALSE
    /\ pc' = "loop"

\* Handle(url) -> getData(url) -> retryableAPICall(fn, defaultMaxRetries, h.isRetryable)
Handle == Enter("Handle", defaultMaxRetries)

\* retryableAPICall(fn, R, h.isRetryable) called with any retry count.
CallRetryable == \E R \in RetryCounts : Enter("direct", R)

\* LoopTest without the attempt > 0 guard: it sleeps before attempt 0 too.
LoopTestAlwaysSleep ==
    /\ pc = "loop"
    /\ pc' = IF attempt <= maxRetries THEN "sleep" ELSE "exhausted"
    /\ UNCHANGED <<caller, invocations, maxRetries, attempt, resp, err, ret, result,
                   outcomes, closes, sleeps, printed>>

\* for attempt := 0; attempt <= maxRetries; ...  (handler.go:76)
LoopTest ==
    /\ pc = "loop"
    /\ pc' = IF attempt <= maxRetries
             THEN (IF attempt > 0 THEN "sleep" ELSE "fn")
             ELSE "exhausted"
    /\ UNCHANGED <<caller, invocations, maxRetries, attempt, resp, err, ret, result,
                   outcomes, closes, sleeps, printed>>

\* Sleep with a fixed delay: the attempt index is not multiplied in.
SleepFixed ==
    /\ pc = "sleep"
    /\ sleeps' = Append(sleeps, defaultRetryDelay)
    /\ pc' = "fn"
    /\ UNCHANGED <<caller, invocations, maxRetries, attempt, resp, err, ret, result,
                   outcomes, closes, printed>>

\* time.Sleep(time.Duration(attempt) * defaultRetryDelay)  (handler.go:77-79)
Sleep ==
    /\ pc = "sleep"
    /\ sleeps' = Append(sleeps, attempt * defaultRetryDelay)
    /\ pc' = "fn"
    /\ UNCHANGED <<caller, invocations, maxRetries, attempt, resp, err, ret, result,
                   outcomes, closes, printed>>

\* What one call of fn may return.  h.httpClient.Get returns a response, an
\* error, or (when the redirect policy fails) both; a function passed to
\* retryableAPICall directly may also return neither.
FnOutcomes(who) ==
    LET resps == {Some(Response(s, b)) : s \in Statuses, b \in BOOLEAN}
        errs  == {Some(NewError(<<t>>)) : t \in TransportErrors}
    IN  {[resp |-> r, err |-> Nil] : r \in resps}
        \cup {[resp |-> Nil, err |-> e] : e \in errs}
        \cup {[resp |-> Some(Response(301, FALSE)), err |-> Some(NewError(<<"stopped after 10 redirects">>))]}
        \cup (IF who = "direct" THEN {[resp |-> Nil, err |-> Nil]} ELSE {})

\* CallFn issuing the request twice in one iteration and using the second
\* outcome.
CallFnTwice ==
    /\ pc = "fn"
    /\ \E o1 \in FnOutcomes(caller), o2 \in FnOutcomes(caller) :
          /\ resp' = o2.resp
          /\ err' = o2.err
          /\ outcomes' = outcomes \o <<o1, o2>>
    /\ closes' = closes \o <<0, 0>>
    /\ pc' = "classify"
    /\ UNCHANGED <<caller, invocations, maxRetries, attempt, ret, result, sleeps, printed>>

\* CallFn keeping the last non-nil error instead of overwriting err.
CallFnKeepLastErr ==
    /\ pc = "fn"
    /\ \E o \in FnOutcomes(caller) :
          /\ resp' = o.resp
          /\ err' = IF IsNil(o.err) /\ ~IsNil(o.resp) /\ o.resp[1].StatusCode >= serverErrorThreshold
                    THEN err ELSE o.err
          /\ outcomes' = Append(outcomes, o)
    /\ closes' = Append(closes, 0)
    /\ pc' = "classify"
    /\ UNCHANGED <<caller, invocations, maxRetries, attempt, ret, result, sleeps, printed>>

\* CallFn keeping the first error it saw instead of overwriting err.
CallFnKeepFirstErr ==
    /\ pc = "fn"
    /\ \E o \in FnOutcomes(caller) :
          /\ resp' = o.resp
          /\ err' = IF IsNil(err) THEN o.err ELSE err
          /\ outcomes' = Append(outcomes, o)
    /\ closes' = Append(closes, 0)
    /\ pc' = "classify"
    /\ UNCHANGED <<caller, invocations, maxRetries, attempt, ret, result, sleeps, printed>>

\* resp, err = fn()  (handler.go:81; fn is the closure of handler.go:39-41)
CallFn ==
    /\ pc = "fn"
    /\ \E o \in FnOutcomes(caller) :
          /\ resp' = o.resp
          /\ err' = o.err
          /\ outcomes' = Append(outcomes, o)
    /\ closes' = Append(closes, 0)
    /\ pc' = "classify"
    /\ UNCHANGED <<caller, invocations, maxRetries, attempt, ret, result, sleeps, printed>>

\* Classify closing the body before the retryability test, so that a
\* returned response is closed as well.
ClassifyCloseFirst ==
    /\ pc = "classify"
    /\ closes' = IF ~IsNil(resp) THEN [closes EXCEPT ![Len(closes)] = @ + 1] ELSE closes
    /\ IF ~isRetryable(resp, err)
       THEN /\ ret' = [resp |-> resp, err |-> err]
            /\ pc' = "returned"
       ELSE /\ ret' = ret
            /\ pc' = "last"
    /\ UNCHANGED <<caller, invocations, maxRetries, attempt, resp, err, result,
                   outcomes, sleeps, printed>>

\* Classify with the negation dropped: returns on a retryable outcome.
ClassifyInverted ==
    /\ pc = "classify"
    /\ IF isRetryable(resp, err)
       THEN /\ ret' = [resp |-> resp, err |-> err]
            /\ pc' = "returned"
       ELSE /\ ret' = ret
            /\ pc' = "close"
    /\ UNCHANGED <<caller, invocations, maxRetries, attempt, resp, err, result,
                   outcomes, closes, sleeps, printed>>

\* if !isRetryable(resp, err) { return resp, err }  (handler.go:83-85)
Classify ==
    /\ pc = "classify"
    /\ IF ~isRetryable(resp, err)
       THEN /\ ret' = [resp |-> resp, err |-> err]
            /\ pc' = "returned"
       ELSE /\ ret' = ret
            /\ pc' = "close"
    /\ UNCHANGED <<caller, invocations, maxRetries, attempt, resp, err, result,
                   outcomes, closes, sleeps, printed>>

\* Body.Close() on the response of the latest call of fn.
CloseLatest(cs) == [cs EXCEPT ![Len(cs)] = @ + 1]

\* CloseDiscarded closing the body only once the last attempt is reached.
CloseDiscardedAtEnd ==
    /\ pc = "close"
    /\ closes' = IF ~IsNil(resp) /\ attempt = maxRetries THEN CloseLatest(closes) ELSE closes
    /\ pc' = "last"
    /\ UNCHANGED <<caller, invocations, maxRetries, attempt, resp, err, ret, result,
                   outcomes, sleeps, printed>>

\* CloseDiscarded closing the body only when no error came with the response.
CloseDiscardedUnlessErr ==
    /\ pc = "close"
    /\ closes' = IF ~IsNil(resp) /\ IsNil(err) THEN CloseLatest(closes) ELSE closes
    /\ pc' = "last"
    /\ UNCHANGED <<caller, invocations, maxRetries, attempt, resp, err, ret, result,
                   outcomes, sleeps, printed>>

\* if resp != nil { resp.Body.Close() }  (handler.go:87-89)
CloseDiscarded ==
    /\ pc = "close"
    /\ closes' = IF ~IsNil(resp) THEN CloseLatest(closes) ELSE closes
    /\ pc' = "last"
    /\ UNCHANGED <<caller, invocations, maxRetries, attempt, resp, err, ret, result,
                   outcomes, sleeps, printed>>

\* LastTest going round the loop without advancing the attempt counter.
LastTestNoAdvance ==
    /\ pc = "last"
    /\ IF attempt = maxRetries
       THEN /\ pc' = "exhausted"
            /\ attempt' = attempt
       ELSE /\ pc' = "loop"
            /\ attempt' = attempt
    /\ UNCHANGED <<caller, invocations, maxRetries, resp, err, ret, result,
                   outcomes, closes, sleeps, printed>>

\* LastTest breaking one attempt early (attempt == maxRetries-1).
LastTestEarly ==
    /\ pc = "last"
    /\ IF attempt >= maxRetries - 1
       THEN /\ pc' = "exhausted"
            /\ attempt' = attempt
       ELSE /\ pc' = "loop"
            /\ attempt' = attempt + 1
    /\ UNCHANGED <<caller, invocations, maxRetries, resp, err, ret, result,
                   outcomes, closes, sleeps, printed>>

\* if attempt == maxRetries { break }; attempt++  (handler.go:91-94, 76)
LastTest ==
    /\ pc = "last"
    /\ IF attempt = maxRetries
       THEN /\ pc' = "exhausted"
            /\ attempt' = attempt
       ELSE /\ pc' = "loop"
            /\ attempt' = attempt + 1
    /\ UNCHANGED <<caller, invocations, maxRetries, resp, err, ret, result,
                   outcomes, closes, sleeps, printed>>

\* ExhaustedError reporting the retry count instead of the attempt count.
ExhaustedErrorRetries(R, e) ==
    ErrorfW(<<"failed after ">> \o FormatInt(R) \o <<" attempts", ": ">>, e)

\* fmt.Errorf("failed after %d attempts: %w", maxRetries+1, err)
ExhaustedError(R, e) ==
    ErrorfW(<<"failed after ">> \o FormatInt(R + 1) \o <<" attempts", ": ">>, e)

\* Exhausted returning the last (closed) response along with the error.
ExhaustedReturnsResp ==
    /\ pc = "exhausted"
    /\ ret' = [resp |-> resp, err |-> Some(ExhaustedError(maxRetries, err))]
    /\ pc' = "returned"
    /\ UNCHANGED <<caller, invocations, maxRetries, attempt, resp, err, result,
                   outcomes, closes, sleeps, printed>>

\* Exhausted returning the last err itself instead of a new error.
ExhaustedReturnsErr ==
    /\ pc = "exhausted"
    /\ ret' = [resp |-> Nil, err |-> err]
    /\ pc' = "returned"
    /\ UNCHANGED <<caller, invocations, maxRetries, attempt, resp, err, result,
                   outcomes, closes, sleeps, printed>>

\* return nil, fmt.Errorf(...)  (handler.go:96)
Exhausted ==
    /\ pc = "exhausted"
    /\ ret' = [resp |-> Nil, err |-> Some(ExhaustedError(maxRetries, err))]
    /\ pc' = "returned"
    /\ UNCHANGED <<caller, invocations, maxRetries, attempt, resp, err, result,
                   outcomes, closes, sleeps, printed>>

\* A direct call ends with retryableAPICall's return.
ReturnDirect ==
    /\ pc = "returned"
    /\ caller = "direct"
    /\ pc' = "done"
    /\ UNCHANGED <<caller, invocations, maxRetries, attempt, resp, err, ret, result,
                   outcomes, closes, sleeps, printed>>

\* ------------------------------------------------------------------ getData

\* if err != nil { return fmt.Errorf("failed to make HTTP request: %w", err) }
\* defer resp.Body.Close()  (handler.go:42-45)
GetDataCheckErr ==
    /\ pc = "returned"
    /\ caller = "Handle"
    /\ IF ~IsNil(ret.err)
       THEN /\ result' = Some(ErrorfW(<<"failed to make HTTP request", ": ">>, ret.err))
            /\ pc' = "done"
       ELSE /\ result' = result
            /\ pc' = "status"
    /\ UNCHANGED <<caller, invocations, maxRetries, attempt, resp, err, ret,
                   outcomes, closes, sleeps, printed>>

\* StatusError formatting the expected code instead of the received one.
StatusErrorExpected(code) == NewError(<<"unexpected status code", ": ">> \o FormatInt(StatusOK))

\* fmt.Errorf("unexpected status code: %d", resp.StatusCode)
StatusError(code) == NewError(<<"unexpected status code", ": ">> \o FormatInt(code))

\* if resp.StatusCode != http.StatusOK { return ... }  (handler.go:47-49);
\* the deferred Close runs on return.
GetDataCheckStatus ==
    /\ pc = "status"
    /\ IF ret.resp[1].StatusCode # StatusOK
       THEN /\ result' = Some(StatusError(ret.resp[1].StatusCode))
            /\ closes' = CloseLatest(closes)
            /\ pc' = "done"
       ELSE /\ result' = result
            /\ closes' = closes
            /\ pc' = "read"
    /\ UNCHANGED <<caller, invocations, maxRetries, attempt, resp, err, ret,
                   outcomes, sleeps, printed>>

\* fmt.Errorf("failed to read response body: %w", err)
ReadError == ErrorfW(<<"failed to read response body", ": ">>, Some(NewError(<<"read error">>)))

\* GetDataRead dropping the read error and reporting success.
GetDataReadIgnoreErr ==
    /\ pc = "read"
    /\ result' = Nil
    /\ printed' = TRUE
    /\ closes' = CloseLatest(closes)
    /\ pc' = "done"
    /\ UNCHANGED <<caller, invocations, maxRetries, attempt, resp, err, ret,
                   outcomes, sleeps>>

\* body, err := io.ReadAll(resp.Body); ...; return nil  (handler.go:51-58);
\* the deferred Close runs on return.
GetDataRead ==
    /\ pc = "read"
    /\ IF ~ret.resp[1].readable
       THEN /\ result' = Some(ReadError)
            /\ printed' = printed
       ELSE /\ result' = Nil
            /\ printed' = TRUE
    /\ closes' = CloseLatest(closes)
    /\ pc' = "done"
    /\ UNCHANGED <<caller, invocations, maxRetries, attempt, resp, err, ret,
                   outcomes, sleeps>>

\* ------------------------------------------------------------ specification

Next ==
    \/ Handle
    \/ CallRetryable
    \/ LoopTest
    \/ Sleep
    \/ CallFn
    \/ Classify
    \/ CloseDiscarded
    \/ LastTest
    \/ Exhausted
    \/ ReturnDirect
    \/ GetDataCheckErr
    \/ GetDataCheckStatus
    \/ GetDataRead

\* A step of the running invocation: every statement of handler.go 76-96 and
\* 42-58 returns, given that each request and each sleep returns.
Step ==
    \/ LoopTest
    \/ Sleep
    \/ CallFn
    \/ Classify
    \/ CloseDiscarded
    \/ LastTest
    \/ Exhausted
    \/ ReturnDirect
    \/ GetDataCheckErr
    \/ GetDataCheckStatus
    \/ GetDataRead

Spec == Init /\ [][Next]_vars

\* ------------------------------------------------------------------- claims

\* An outcome the retry controller must retry: a transport error, or a
\* response whose status is a server error.
RetryableOutcome(o) ==
    \/ o.err # Nil
    \/ (o.resp # Nil /\ o.resp[1].StatusCode >= 500)

\* A response with status s and no error.
IsStatus(o, s) == o.err = Nil /\ o.resp # Nil /\ o.resp[1].StatusCode = s

\* retryableAPICall has returned to its caller.
Returned == pc \in {"returned", "status", "read", "done"}

Attempts == Len(outcomes)

AllRetryable == \A i \in 1..Attempts : RetryableOutcome(outcomes[i])

\* C1: with R >= 0 an invocation calls the request function at most R+1
\* times, exactly R+1 times when it has returned and every outcome was
\* retryable, and a Handle call never issues more than 4 requests.
C1_AttemptBudget ==
    (caller # "none" /\ maxRetries >= 0) =>
        /\ Attempts <= maxRetries + 1
        /\ (Returned /\ AllRetryable) => Attempts = maxRetries + 1
        /\ caller = "Handle" => Attempts <= 4

C1_Witness ==
    /\ pc = "done"
    /\ caller = "direct"
    /\ maxRetries = 2
    /\ Attempts = 3
    /\ AllRetryable

\* C2: a non-retryable outcome is the last one: no attempt follows it, the
\* controller returns exactly that outcome, and for a Handle call whose first
\* two outcomes are a 500 and a readable 200 exactly two attempts are made and
\* no error is returned.
C2_EarlyExit ==
    /\ \A i \in 1..Attempts :
          ~RetryableOutcome(outcomes[i]) =>
              /\ i = Attempts
              /\ pc \in {"classify", "returned", "status", "read", "done"}
              /\ Returned => ret = outcomes[i]
    /\ (/\ caller = "Handle"
        /\ Attempts >= 2
        /\ IsStatus(outcomes[1], 500)
        /\ IsStatus(outcomes[2], 200)
        /\ outcomes[2].resp[1].readable) =>
              /\ Attempts = 2
              /\ pc = "done" => result = Nil

C2_Witness ==
    /\ pc = "done"
    /\ caller = "Handle"
    /\ Attempts = 2
    /\ IsStatus(outcomes[1], 500)
    /\ IsStatus(outcomes[2], 200)
    /\ outcomes[2].resp[1].readable
    /\ result = Nil

\* C3: when the first attempt of a Handle call yields a readable 200
\* response, exactly one attempt is made, nothing is slept, and the call
\* returns a nil error.
C3_FirstAttemptOK ==
    (/\ caller = "Handle"
     /\ Attempts >= 1
     /\ IsStatus(outcomes[1], 200)
     /\ outcomes[1].resp[1].readable) =>
        /\ Attempts = 1
        /\ sleeps = <<>>
        /\ pc = "done" => (result = Nil /\ printed)

C3_Witness ==
    /\ pc = "done"
    /\ caller = "Handle"
    /\ Attempts = 1
    /\ IsStatus(outcomes[1], 200)
    /\ outcomes[1].resp[1].readable
    /\ result = Nil

\* The number a sequence of decimal digit tokens denotes (-1 if it is none).
DigitValue(t) ==
    IF \E d \in 0..9 : Digit(d) = t THEN CHOOSE d \in 0..9 : Digit(d) = t ELSE 0 - 1

RECURSIVE ParseInt(_)
ParseInt(ts) ==
    IF ts = <<>> THEN 0 - 1
    ELSE IF DigitValue(ts[Len(ts)]) < 0 THEN 0 - 1
    ELSE IF Len(ts) = 1 THEN DigitValue(ts[1])
    ELSE IF ParseInt(SubSeq(ts, 1, Len(ts) - 1)) < 0 THEN 0 - 1
    ELSE 10 * ParseInt(SubSeq(ts, 1, Len(ts) - 1)) + DigitValue(ts[Len(ts)])

\* A response, without error, whose status is neither 200 nor a server error.
IsClientStatus(o) ==
    /\ o.err = Nil
    /\ o.resp # Nil
    /\ o.resp[1].StatusCode # 200
    /\ o.resp[1].StatusCode < 500

\* msg is "unexpected status code: N" for the number n.
IsStatusMessage(msg, n) ==
    /\ Len(msg) > 2
    /\ SubSeq(msg, 1, 2) = <<"unexpected status code", ": ">>
    /\ ParseInt(SubSeq(msg, 3, Len(msg))) = n

\* C4: a response whose status is neither 200 nor >= 500 is not retried: it
\* is the last attempt (the only one when it is the first), and getData then
\* returns the error "unexpected status code: N" with N that status code,
\* wrapping nothing.
C4_ClientStatusTerminal ==
    \A i \in 1..Attempts :
        IsClientStatus(outcomes[i]) =>
            /\ i = Attempts
            /\ pc \notin {"close", "last", "loop", "sleep", "fn", "exhausted", "read"}
            /\ (caller = "Handle" /\ pc = "done") =>
                  /\ result # Nil
                  /\ IsStatusMessage(result[1].msg, outcomes[i].resp[1].StatusCode)
                  /\ result[1].cause = Nil

C4_Witness ==
    /\ pc = "done"
    /\ caller = "Handle"
    /\ Attempts = 1
    /\ IsStatus(outcomes[1], 404)
    /\ result = Some(NewError(<<"unexpected status code", ": ", "4", "0", "4">>))

\* The message says "failed after N attempts" for the number n.
SaysFailedAfter(msg, n) ==
    \E i \in 1..Len(msg), j \in 1..Len(msg) :
        /\ i < j
        /\ msg[i] = "failed after "
        /\ msg[j] = " attempts"
        /\ ParseInt(SubSeq(msg, i + 1, j - 1)) = n

AllServerErrors ==
    \A i \in 1..Attempts :
        /\ outcomes[i].err = Nil
        /\ outcomes[i].resp # Nil
        /\ outcomes[i].resp[1].StatusCode >= 500

\* C5: when every attempt of an invocation that has returned (R >= 0)
\* yielded a response with status >= 500, exactly R+1 attempts were made and
\* the returned error is non-nil and says "failed after N attempts" with N the
\* number of attempts made; for Handle that is "failed after 4 attempts".
C5_ServerErrorsExhaust ==
    (Returned /\ maxRetries >= 0 /\ AllServerErrors) =>
        /\ Attempts = maxRetries + 1
        /\ ret.resp = Nil
        /\ ret.err # Nil
        /\ SaysFailedAfter(ret.err[1].msg, Attempts)
        /\ (caller = "Handle" /\ pc = "done") =>
              /\ Attempts = 4
              /\ result # Nil
              /\ Contains(result[1].msg, <<"failed after ", "4", " attempts">>)

C5_Witness ==
    /\ pc = "done"
    /\ caller = "Handle"
    /\ Attempts = 4
    /\ AllServerErrors
    /\ IsStatus(outcomes[1], 500)
    /\ IsStatus(outcomes[4], 503)
    /\ result # Nil

AllTransportErrors ==
    \A i \in 1..Attempts : outcomes[i].err # Nil /\ outcomes[i].resp = Nil

\* C6: when every attempt of an invocation that has returned (R >= 0) failed
\* with a transport error, exactly R+1 attempts were made and the returned
\* error states that attempt count and wraps the error of the last attempt;
\* the error Handle returns wraps that error in turn.
C6_TransportErrorsExhaust ==
    (Returned /\ maxRetries >= 0 /\ AllTransportErrors) =>
        /\ Attempts = maxRetries + 1
        /\ ret.resp = Nil
        /\ ret.err # Nil
        /\ SaysFailedAfter(ret.err[1].msg, maxRetries + 1)
        /\ ret.err[1].cause = outcomes[Attempts].err
        /\ (caller = "Handle" /\ pc = "done") =>
              /\ result # Nil
              /\ result[1].cause = ret.err
              /\ Contains(result[1].msg, <<"failed after ", "4", " attempts">>)
              /\ Contains(result[1].msg, outcomes[Attempts].err[1].msg)

C6_Witness ==
    /\ pc = "done"
    /\ caller = "Handle"
    /\ Attempts = 4
    /\ AllTransportErrors
    /\ outcomes[1].err # outcomes[4].err
    /\ ret.err[1].cause = outcomes[4].err

\* The invocation ended by retry exhaustion: every attempt was retryable.
ExhaustedReturn == Returned /\ maxRetries >= 0 /\ Attempts = maxRetries + 1 /\ AllRetryable

\* The indices of the attempts that produced an error.
ErrorAttempts == {i \in 1..Attempts : outcomes[i].err # Nil}

LastErrorAttempt == CHOOSE i \in ErrorAttempts : \A j \in ErrorAttempts : j <= i

\* C7 as stated: on exhaustion the aggregated failure wraps the last
\* transport error any attempt of the invocation produced.
C7_WrapsLastCapturedError ==
    (ExhaustedReturn /\ ErrorAttempts # {}) =>
        ret.err[1].cause = outcomes[LastErrorAttempt].err

\* C7 (amended): on exhaustion the aggregated failure wraps the error value
\* of the final attempt only: that attempt's transport error if it produced
\* one, and nothing when the final attempt was a retryable status without an
\* error, whatever errors earlier attempts produced.
C7_WrapsFinalAttemptError ==
    ExhaustedReturn =>
        /\ ret.err # Nil
        /\ ret.err[1].cause = outcomes[Attempts].err
        /\ (outcomes[Attempts].err = Nil) =>
              /\ ret.err[1].cause = Nil
              /\ ret.err[1].msg[Len(ret.err[1].msg)] = "%!w(<nil>)"

C7_Witness ==
    /\ pc = "done"
    /\ caller = "Handle"
    /\ Attempts = 4
    /\ outcomes[1].err # Nil
    /\ IsStatus(outcomes[2], 500)
    /\ IsStatus(outcomes[3], 500)
    /\ IsStatus(outcomes[4], 500)
    /\ ret.err # Nil
    /\ ret.err[1].cause = Nil

\* A readable-looking 200 whose body cannot be read.
IsUnreadableOK(o) == IsStatus(o, 200) /\ ~o.resp[1].readable

\* C8: a 200 response whose body cannot be read ends a Handle call: it is
\* the last attempt (the only one, with no sleep, when it is the first), and
\* the call returns an error whose message contains "failed to read response
\* body" and which wraps the read error.
C8_ReadFailureTerminal ==
    /\ \A i \in 1..Attempts :
          (caller = "Handle" /\ IsUnreadableOK(outcomes[i])) =>
              /\ i = Attempts
              /\ pc \in {"classify", "returned", "status", "read", "done"}
              /\ Len(sleeps) = i - 1
              /\ pc = "done" =>
                    /\ result # Nil
                    /\ Contains(result[1].msg, <<"failed to read response body">>)
                    /\ result[1].cause = Some(NewError(<<"read error">>))
                    /\ ~printed
    /\ (caller = "Handle" /\ Attempts >= 1 /\ IsUnreadableOK(outcomes[1])) =>
          (Attempts = 1 /\ sleeps = <<>>)

C8_Witness ==
    /\ pc = "done"
    /\ caller = "Handle"
    /\ Attempts = 1
    /\ IsUnreadableOK(outcomes[1])
    /\ result # Nil
    /\ Contains(result[1].msg, <<"failed to read response body">>)

\* C9: when a Handle call has returned, the body of every response any of
\* its attempts produced has been closed.
C9_NoBodyLeak ==
    (caller = "Handle" /\ pc = "done") =>
        \A i \in 1..Attempts : outcomes[i].resp # Nil => closes[i] >= 1

\* A Handle call that returned after discarding responses (one of them
\* delivered together with an error) and then reading a 200.
C9_Witness ==
    /\ pc = "done"
    /\ caller = "Handle"
    /\ Attempts = 3
    /\ IsStatus(outcomes[1], 503)
    /\ outcomes[2].resp # Nil /\ outcomes[2].err # Nil
    /\ IsStatus(outcomes[3], 200)
    /\ \A i \in 1..3 : closes[i] = 1

\* C10: the controller treats the outcome of an attempt as retryable exactly
\* when it carries an error or a response with status >= 500: once
\* classified, the loop goes on (or ends by exhaustion) in that case, and
\* returns the outcome itself in every other case; 499 is terminal, 500 is
\* retried.
C10_RetryablePredicate ==
    /\ pc \in {"close", "last"} =>
          (err # Nil \/ (resp # Nil /\ resp[1].StatusCode >= 500))
    /\ (Returned /\ Attempts >= 1) =>
          IF err # Nil \/ (resp # Nil /\ resp[1].StatusCode >= 500)
          THEN ret.resp = Nil /\ ret.err # Nil
          ELSE ret = [resp |-> resp, err |-> err]
    /\ \A i \in 1..Attempts :
          /\ IsStatus(outcomes[i], 499) => i = Attempts
          /\ (IsStatus(outcomes[i], 500) /\ i = Attempts) => pc # "returned" \/ ret.resp = Nil

C10_Witness ==
    /\ pc = "returned"
    /\ Attempts = 3
    /\ IsStatus(outcomes[1], 500)
    /\ outcomes[2].err # Nil
    /\ IsStatus(outcomes[3], 499)
    /\ ret = outcomes[3]

\* C11: linear backoff.  The i-th sleep of an invocation lasts i x 100 ms,
\* no sleep precedes attempt 0, and exactly one sleep lies between attempt
\* i-1 and attempt i: when attempt i is about to be issued i sleeps have
\* been made and i attempts have returned, and at every other moment the
\* sleeps made are one fewer than the attempts issued.
C11_LinearBackoff ==
    /\ \A i \in 1..Len(sleeps) : sleeps[i] = i * 100
    /\ pc = "fn" => Len(sleeps) = Attempts
    /\ pc = "sleep" => (Attempts >= 1 /\ Len(sleeps) = Attempts - 1)
    /\ (pc \notin {"fn", "sleep"} /\ Attempts >= 1) => Len(sleeps) = Attempts - 1
    /\ Attempts = 0 => sleeps = <<>>

C11_Witness ==
    /\ pc = "fn"
    /\ caller = "Handle"
    /\ Attempts = 3
    /\ sleeps = <<100, 200, 300>>

\* Every response produced by the attempts 1..n has been closed.
ClosedUpTo(n) == \A i \in 1..n : outcomes[i].resp # Nil => closes[i] >= 1

\* C12: the body of a response classified retryable (with or without an
\* accompanying error) is closed before the loop goes on: none is open
\* while the controller tests for the last attempt, sleeps, issues the next
\* attempt or returns on exhaustion, and no body of an earlier attempt is
\* ever open once a later attempt has been issued.
C12_DiscardedBodyClosed ==
    /\ pc \in {"last", "loop", "sleep", "fn", "exhausted"} => ClosedUpTo(Attempts)
    /\ (Returned /\ ret.err # Nil) => ClosedUpTo(Attempts)
    /\ Attempts >= 1 => ClosedUpTo(Attempts - 1)

C12_Witness ==
    /\ pc = "sleep"
    /\ Attempts = 2
    /\ IsStatus(outcomes[1], 500)
    /\ outcomes[2].resp # Nil /\ outcomes[2].err # Nil
    /\ closes = <<1, 1>>

\* The final attempt was a retryable status code without a transport error.
FinalAttemptServerStatus ==
    /\ Attempts >= 1
    /\ outcomes[Attempts].err = Nil
    /\ outcomes[Attempts].resp # Nil
    /\ outcomes[Attempts].resp[1].StatusCode >= 500

\* C13: when retries are exhausted and the final attempt was a retryable
\* status code without a transport error, the controller returns a nil
\* response and a non-nil error that states the attempt count R+1 and wraps
\* nothing; Handle then returns a non-nil error wrapping it, never success.
C13_StatusExhaustionIsFailure ==
    (ExhaustedReturn /\ FinalAttemptServerStatus) =>
        /\ ret.resp = Nil
        /\ ret.err # Nil
        /\ SaysFailedAfter(ret.err[1].msg, maxRetries + 1)
        /\ ret.err[1].cause = Nil
        /\ (caller = "Handle" /\ pc = "done") =>
              /\ result # Nil
              /\ result[1].cause = ret.err
              /\ Contains(result[1].msg, <<"failed to make HTTP request">>)
              /\ ~printed

C13_Witness ==
    /\ pc = "done"
    /\ caller = "Handle"
    /\ Attempts = 4
    /\ outcomes[3].err # Nil
    /\ FinalAttemptServerStatus
    /\ result # Nil
    /\ result[1].cause[1].cause = Nil

\* C14: retry state is per invocation.  An invocation that follows earlier
\* ones on the same handler starts at attempt 0 having slept nothing, its
\* first sleep is 100 ms, and when all its outcomes are retryable it makes
\* the full R+1 attempts with the sleeps 100, 200, ..., R x 100 ms.
C14_PerInvocationState ==
    invocations >= 2 =>
        /\ (pc = "loop" /\ Attempts = 0) => (attempt = 0 /\ sleeps = <<>>)
        /\ pc = "fn" => attempt = Len(sleeps)
        /\ Len(sleeps) >= 1 => sleeps[1] = 100
        /\ (Returned /\ maxRetries >= 0 /\ AllRetryable) =>
              /\ Attempts = maxRetries + 1
              /\ sleeps = [i \in 1..maxRetries |-> i * 100]

\* A second Handle call that used its whole budget.
C14_Witness ==
    /\ invocations = 2
    /\ pc = "done"
    /\ caller = "Handle"
    /\ Attempts = 4
    /\ AllRetryable
    /\ sleeps = <<100, 200, 300>>

\* C15: attempts are strictly sequential.  The log of outcomes grows by one
\* outcome at a time and only at the position of the request; attempt i+1
\* is issued only when the i+1 attempts before it have all returned and been
\* classified retryable; and while the latest outcome is being classified,
\* closed or tested, exactly one attempt more than the loop counter has
\* been issued.
C15_Sequential ==
    /\ [](Len(closes) = Attempts)
    /\ [](pc \in {"loop", "sleep", "fn"} => (attempt = Attempts /\ AllRetryable))
    /\ [](pc \in {"classify", "close", "last"} =>
            /\ Attempts = attempt + 1
            /\ \A i \in 1..(Attempts - 1) : RetryableOutcome(outcomes[i]))
    /\ [][Len(outcomes') > Attempts =>
            /\ Len(outcomes') = Attempts + 1
            /\ SubSeq(outcomes', 1, Attempts) = outcomes
            /\ pc = "fn"
            /\ pc' = "classify"]_vars

C15_Witness ==
    /\ pc = "classify"
    /\ attempt = 2
    /\ Attempts = 3
    /\ RetryableOutcome(outcomes[1])
    /\ RetryableOutcome(outcomes[2])

\* No attempt returned neither a response nor an error.
NoEmptyOutcome == \A i \in 1..Attempts : outcomes[i].resp # Nil \/ outcomes[i].err # Nil

\* C16: result shape.  With R >= 0 retryableAPICall returns a non-nil error
\* exactly when all R+1 attempts were retryable, and then a nil response;
\* otherwise it returns a nil error with the response of the last attempt
\* made.  When no attempt yields neither a response nor an error, a nil
\* error never comes with a nil response, and getData reads the status and
\* body of a non-nil response only.
C16_ResultShape ==
    (Returned /\ maxRetries >= 0) =>
        /\ ret.err # Nil <=> (Attempts = maxRetries + 1 /\ AllRetryable)
        /\ ret.err # Nil => ret.resp = Nil
        /\ ret.err = Nil => (Attempts >= 1 /\ ret.resp = outcomes[Attempts].resp)
        /\ NoEmptyOutcome => ~(ret.err = Nil /\ ret.resp = Nil)
        /\ (caller = "Handle" /\ pc \in {"status", "read"}) => ret.resp # Nil

C16_Witness ==
    /\ pc = "returned"
    /\ caller = "direct"
    /\ maxRetries = 2
    /\ Attempts = 3
    /\ AllRetryable
    /\ outcomes[3].resp # Nil
    /\ ret.resp = Nil
    /\ ret.err # Nil

\* C17: the controller closes discarded responses only.  A response that
\* retryableAPICall returns is open when it returns and while getData reads
\* it; Close is called on no body twice and only on bodies of responses;
\* and when Handle has returned Close has been called exactly once on the
\* body of every response its attempts produced.
C17_ClosedExactlyOnce ==
    /\ \A i \in 1..Attempts :
          /\ closes[i] <= 1
          /\ closes[i] >= 1 => outcomes[i].resp # Nil
    /\ (Returned /\ ret.resp # Nil /\ ~(caller = "Handle" /\ pc = "done")) =>
          closes[Attempts] = 0
    /\ (caller = "Handle" /\ pc = "done") =>
          \A i \in 1..Attempts :
              closes[i] = IF outcomes[i].resp # Nil THEN 1 ELSE 0

C17_Witness ==
    /\ pc = "status"
    /\ caller = "Handle"
    /\ Attempts = 3
    /\ outcomes[1].resp # Nil
    /\ outcomes[2].resp # Nil
    /\ ret.resp # Nil
    /\ closes = <<1, 1, 0>>

RECURSIVE SumSeq(_)
SumSeq(s) == IF s = <<>> THEN 0 ELSE s[Len(s)] + SumSeq(SubSeq(s, 1, Len(s) - 1))

\* C18: no sleep follows the last attempt.  An invocation that has returned
\* after n >= 1 attempts has slept exactly n-1 times, 100 x n(n-1)/2 ms in
\* all; that is 600 ms when a Handle call exhausts its retries.
C18_SleepTotal ==
    (Returned /\ Attempts >= 1) =>
        /\ Len(sleeps) = Attempts - 1
        /\ 2 * SumSeq(sleeps) = 100 * Attempts * (Attempts - 1)
        /\ (caller = "Handle" /\ AllRetryable) => SumSeq(sleeps) = 600

C18_Witness ==
    /\ pc = "done"
    /\ caller = "Handle"
    /\ Attempts = 4
    /\ AllRetryable
    /\ sleeps = <<100, 200, 300>>
    /\ SumSeq(sleeps) = 600

\* The specification with the fairness of sequential execution: a running
\* invocation keeps taking steps.
LiveSpec == Spec /\ WF_vars(Step)

\* C19: termination.  Whatever outcomes the attempts yield, a running
\* invocation eventually returns: the loop counter only grows, by one per
\* pass through the loop and never beyond maxRetries, and a call that has
\* returned (R >= 0) did so with the first non-retryable outcome or with
\* the exhaustion error after attempt R.
C19_Terminates ==
    /\ (pc \notin {"idle", "done"}) ~> (pc = "done")
    /\ [][pc \notin {"idle", "done"} =>
            /\ attempt' >= attempt
            /\ (pc = "last" /\ pc' = "loop") => (attempt' = attempt + 1 /\ attempt' <= maxRetries)
            /\ attempt' # attempt => pc = "last"]_vars
    /\ []((pc = "done" /\ maxRetries >= 0) =>
            \/ (Attempts >= 1 /\ ~RetryableOutcome(outcomes[Attempts]) /\ ret = outcomes[Attempts])
            \/ (AllRetryable /\ attempt = maxRetries /\ Attempts = maxRetries + 1
                /\ ret.resp = Nil /\ ret.err # Nil))

C19_Witness ==
    /\ pc = "done"
    /\ caller = "Handle"
    /\ attempt = 3
    /\ Attempts = 4
    /\ AllRetryable
    /\ result # Nil

====
